---- MODULE Spec2Model ----
(***************************************************************************)
(* Model of the MIPS assembler / disassembler of src/main.rs.              *)
(*                                                                         *)
(* Text is modelled character by character: a string is a sequence of     *)
(* one-character strings, so that tokenizing, parsing and formatting are   *)
(* computed as the code computes them.  A u32 is modelled as a function    *)
(* from bit position 0..31 (0 = least significant) to {0, 1}, so that      *)
(* shifts drop the bits that leave the word and `|` is a bitwise or.       *)
(***************************************************************************)
EXTENDS Integers, Sequences, FiniteSets, TLC

(***************************************************************************)
(* Bounds of the model.                                                    *)
(***************************************************************************)
\* longest source file, in lines, among the multi-line inputs
MaxLines == 2
\* number of register spellings used for the operands that are not swept
NFew == 2

None == -1

(***************************************************************************)
(* u32 arithmetic.                                                         *)
(***************************************************************************)
Bit == {0, 1}
U32 == [0..31 -> Bit]

RECURSIVE Pow2(_)
Pow2(n) == IF n = 0 THEN 1 ELSE 2 * Pow2(n - 1)

\* the u32 whose value is the natural number n < 2^31
FromNat(n) == [i \in 0..31 |-> IF i > 30 THEN 0 ELSE (n \div Pow2(i)) % 2]

RECURSIVE BitsValue(_, _, _)
BitsValue(w, hi, lo) ==
    IF hi < lo THEN 0 ELSE w[lo] + 2 * BitsValue(w, hi, lo + 1)

\* the value of bits [hi:lo] of w, as a natural number
Field(w, hi, lo) == BitsValue(w, hi, lo)

\* w << n on u32: the bits shifted past bit 31 are dropped
Shl(w, n) == [i \in 0..31 |-> IF i >= n THEN w[i - n] ELSE 0]
\* w >> n on u32
Shr(w, n) == [i \in 0..31 |-> IF i + n <= 31 THEN w[i + n] ELSE 0]
BitOr(a, b) == [i \in 0..31 |-> IF a[i] = 1 \/ b[i] = 1 THEN 1 ELSE 0]
BitAnd(a, b) == [i \in 0..31 |-> IF a[i] = 1 /\ b[i] = 1 THEN 1 ELSE 0]

Zero32 == FromNat(0)

(***************************************************************************)
(* Characters and strings.                                                 *)
(***************************************************************************)
Digits == <<"0", "1", "2", "3", "4", "5", "6", "7", "8", "9">>
UpperCase == <<"A", "B", "C", "D", "E", "F", "G", "H", "I", "J", "K", "L", "M",
               "N", "O", "P", "Q", "R", "S", "T", "U", "V", "W", "X", "Y", "Z">>
LowerCase == <<"a", "b", "c", "d", "e", "f", "g", "h", "i", "j", "k", "l", "m",
               "n", "o", "p", "q", "r", "s", "t", "u", "v", "w", "x", "y", "z">>
WhiteSpace == {" ", "\t"}

Range(s) == {s[i] : i \in 1..Len(s)}
IndexOf(s, c) == CHOOSE i \in 1..Len(s) : s[i] = c

\* char::to_ascii_lowercase
CharToLower(c) ==
    IF c \in Range(UpperCase) THEN LowerCase[IndexOf(UpperCase, c)] ELSE c
\* str::to_ascii_lowercase
to_ascii_lowercase(s) == [i \in 1..Len(s) |-> CharToLower(s[i])]

\* str::split_once("#").0, or the whole string when there is no '#'
BeforeHash(s) ==
    IF \E i \in 1..Len(s) : s[i] = "#"
    THEN LET k == CHOOSE i \in 1..Len(s) :
                      s[i] = "#" /\ \A j \in 1..(i - 1) : s[j] # "#"
         IN SubSeq(s, 1, k - 1)
    ELSE s

\* str::trim
trim(s) ==
    IF \A i \in 1..Len(s) : s[i] \in WhiteSpace THEN <<>>
    ELSE LET a == CHOOSE i \in 1..Len(s) :
                      s[i] \notin WhiteSpace /\ \A j \in 1..(i - 1) : s[j] \in WhiteSpace
             b == CHOOSE i \in 1..Len(s) :
                      s[i] \notin WhiteSpace /\ \A j \in (i + 1)..Len(s) : s[j] \in WhiteSpace
         IN SubSeq(s, a, b)

\* str::split(|c| c in seps).filter(|s| !s.is_empty()).collect()
RECURSIVE SplitAcc(_, _, _, _)
SplitAcc(s, seps, cur, acc) ==
    IF s = <<>> THEN (IF cur = <<>> THEN acc ELSE Append(acc, cur))
    ELSE IF Head(s) \in seps
         THEN SplitAcc(Tail(s), seps, <<>>, IF cur = <<>> THEN acc ELSE Append(acc, cur))
         ELSE SplitAcc(Tail(s), seps, Append(cur, Head(s)), acc)
SplitNonEmpty(s, seps) == SplitAcc(s, seps, <<>>, <<>>)

\* the token sequence `parts` of assemble_line
Tokenize(asm_line) == SplitNonEmpty(trim(BeforeHash(asm_line)), {",", " "})

\* str::parse::<u32>: an optional '+', then one or more decimal digits whose
\* value fits 32 bits.  The value is accumulated in two 16-bit limbs.
RECURSIVE ParseAcc(_, _, _)
ParseAcc(ds, hi, lo) ==
    IF ds = <<>> THEN <<hi, lo>>
    ELSE LET l  == lo * 10 + (IndexOf(Digits, Head(ds)) - 1)
             h  == hi * 10 + (l \div 65536)
         IN IF h >= 65536 THEN <<None, None>> ELSE ParseAcc(Tail(ds), h, l % 65536)
ParseU32(tok) ==
    LET ds == IF tok # <<>> /\ Head(tok) = "+" THEN Tail(tok) ELSE tok
    IN IF ds = <<>> \/ \E i \in 1..Len(ds) : ds[i] \notin Range(Digits)
       THEN [ok |-> FALSE, val |-> Zero32]
       ELSE LET v == ParseAcc(ds, 0, 0)
            IN IF v[1] = None THEN [ok |-> FALSE, val |-> Zero32]
               ELSE [ok |-> TRUE,
                     val |-> [i \in 0..31 |->
                                 IF i < 16 THEN (v[2] \div Pow2(i)) % 2
                                 ELSE (v[1] \div Pow2(i - 16)) % 2]]

\* Display of an unsigned integer n < 2^31: decimal, no leading zeros
RECURSIVE FormatNat(_)
FormatNat(n) ==
    IF n < 10 THEN <<Digits[n + 1]>>
    ELSE Append(FormatNat(n \div 10), Digits[(n % 10) + 1])

\* format!("{:032b}", w): the 32 bits, most significant first
FormatBinary(w) == [i \in 1..32 |-> Digits[w[32 - i] + 1]]

\* u32::to_le_bytes and u32::from_le_bytes
to_le_bytes(w) == [k \in 1..4 |-> Field(w, 8 * k - 1, 8 * (k - 1))]
from_le_bytes(b) ==
    [i \in 0..31 |-> (b[(i \div 8) + 1] \div Pow2(i % 8)) % 2]

(***************************************************************************)
(* The opcode constants and the four tables (BiMap<&str, u32>).            *)
(***************************************************************************)
LW_OPCODE == 35
SW_OPCODE == 43
SLL_OPCODE == 0
SLLV_OPCODE == 4
SRL_OPCODE == 2
SRLV_OPCODE == 6
SRA_OPCODE == 3
SRAV_OPCODE == 7

create_j_codes ==
    { [l |-> <<"j">>, r |-> 2],
      [l |-> <<"j", "a", "l">>, r |-> 3] }

create_i_codes ==
    { [l |-> <<"a", "d", "d", "i">>, r |-> 8],
      [l |-> <<"a", "d", "d", "i", "u">>, r |-> 9],
      [l |-> <<"a", "n", "d", "i">>, r |-> 12],
      [l |-> <<"b", "e", "q">>, r |-> 4],
      [l |-> <<"b", "n", "e">>, r |-> 5],
      [l |-> <<"l", "w">>, r |-> LW_OPCODE],
      [l |-> <<"o", "r", "i">>, r |-> 13],
      [l |-> <<"s", "w">>, r |-> SW_OPCODE] }

create_r_codes ==
    { [l |-> <<"a", "d", "d">>, r |-> 32],
      [l |-> <<"a", "d", "d", "u">>, r |-> 33],
      [l |-> <<"a", "n", "d">>, r |-> 36],
      [l |-> <<"d", "i", "v">>, r |-> 26],
      [l |-> <<"j", "r">>, r |-> 8],
      [l |-> <<"n", "o", "r">>, r |-> 39],
      [l |-> <<"o", "r">>, r |-> 37],
      [l |-> <<"s", "l", "l">>, r |-> SLL_OPCODE],
      [l |-> <<"s", "l", "l", "v">>, r |-> SLLV_OPCODE],
      [l |-> <<"s", "l", "t">>, r |-> 42],
      [l |-> <<"s", "l", "t", "u">>, r |-> 43],
      [l |-> <<"s", "r", "a">>, r |-> SRA_OPCODE],
      [l |-> <<"s", "r", "a", "v">>, r |-> SRAV_OPCODE],
      [l |-> <<"s", "r", "l">>, r |-> SRL_OPCODE],
      [l |-> <<"s", "r", "l", "v">>, r |-> SRLV_OPCODE],
      [l |-> <<"s", "u", "b">>, r |-> 34],
      [l |-> <<"s", "u", "b", "u">>, r |-> 35],
      [l |-> <<"x", "o", "r">>, r |-> 38] }

create_register_codes ==
    { [l |-> <<"$", "z", "e", "r", "o">>, r |-> 0],
      [l |-> <<"$", "a", "t">>, r |-> 1],
      [l |-> <<"$", "v", "0">>, r |-> 2],
      [l |-> <<"$", "v", "1">>, r |-> 3],
      [l |-> <<"$", "a", "0">>, r |-> 4],
      [l |-> <<"$", "a", "1">>, r |-> 5],
      [l |-> <<"$", "a", "2">>, r |-> 6],
      [l |-> <<"$", "a", "3">>, r |-> 7],
      [l |-> <<"$", "t", "0">>, r |-> 8],
      [l |-> <<"$", "t", "1">>, r |-> 9],
      [l |-> <<"$", "t", "2">>, r |-> 10],
      [l |-> <<"$", "t", "3">>, r |-> 11],
      [l |-> <<"$", "t", "4">>, r |-> 12],
      [l |-> <<"$", "t", "5">>, r |-> 13],
      [l |-> <<"$", "t", "6">>, r |-> 14],
      [l |-> <<"$", "t", "7">>, r |-> 15],
      [l |-> <<"$", "s", "0">>, r |-> 16],
      [l |-> <<"$", "s", "1">>, r |-> 17],
      [l |-> <<"$", "s", "2">>, r |-> 18],
      [l |-> <<"$", "s", "3">>, r |-> 19],
      [l |-> <<"$", "s", "4">>, r |-> 20],
      [l |-> <<"$", "s", "5">>, r |-> 21],
      [l |-> <<"$", "s", "6">>, r |-> 22],
      [l |-> <<"$", "s", "7">>, r |-> 23],
      [l |-> <<"$", "t", "8">>, r |-> 24],
      [l |-> <<"$", "t", "9">>, r |-> 25],
      [l |-> <<"$", "k", "0">>, r |-> 26],
      [l |-> <<"$", "k", "1">>, r |-> 27],
      [l |-> <<"$", "g", "p">>, r |-> 28],
      [l |-> <<"$", "s", "p">>, r |-> 29],
      [l |-> <<"$", "f", "p">>, r |-> 30],
      [l |-> <<"$", "r", "a">>, r |-> 31] }

\* BiMap::get_by_left and BiMap::get_by_right; None when the key is absent
get_by_left(m, k) ==
    IF \E p \in m : p.l = k THEN (CHOOSE p \in m : p.l = k).r ELSE None
get_by_right(m, c) ==
    IF \E p \in m : p.r = c THEN (CHOOSE p \in m : p.r = c).l ELSE <<>>
has_right(m, c) == \E p \in m : p.r = c

(***************************************************************************)
(* Encoders.  A result is a word, or a panic (ok = FALSE) with its reason. *)
(***************************************************************************)
Ok(w) == [ok |-> TRUE, word |-> w, err |-> "", failed |-> FALSE]
Panic(e) == [ok |-> FALSE, word |-> Zero32, err |-> e, failed |-> FALSE]

IndexPanic == "index out of bounds"
UnwrapPanic == "called Option::unwrap() on a None value"

\* the immediate kept at its full width
mask_immediate_none(v) == v

\* `& 0xffff` applied to a parsed immediate
mask_immediate(v) == BitAnd(v, FromNat(65535))

\* immediate | (s_register << 16) | (t_register << 21) | (opcode << 26)
pack_i(opcode, t_register, s_register, immediate) ==
    BitOr(BitOr(BitOr(immediate, Shl(FromNat(s_register), 16)),
                Shl(FromNat(t_register), 21)),
          Shl(FromNat(opcode), 26))

assemble_i(opcode, registers, parts) ==
    IF opcode = LW_OPCODE \/ opcode = SW_OPCODE
    THEN IF Len(parts) < 3 THEN Panic(IndexPanic)
         ELSE LET last_part_parts == SplitNonEmpty(parts[3], {"(", ")"})
                  t_register == get_by_left(registers, parts[2])
              IN IF t_register = None THEN Panic(UnwrapPanic)
                 ELSE IF Len(last_part_parts) < 1 THEN Panic(IndexPanic)
                 ELSE LET immediate == ParseU32(last_part_parts[1])
                      IN IF ~immediate.ok
                         THEN Panic("Invalid immediate value for lw/sw instruction")
                         ELSE IF Len(last_part_parts) < 2 THEN Panic(IndexPanic)
                         ELSE LET s_register == get_by_left(registers, last_part_parts[2])
                              IN IF s_register = None THEN Panic(UnwrapPanic)
                                 ELSE Ok(pack_i(opcode, t_register, s_register,
                                                mask_immediate(immediate.val)))
    ELSE IF Len(parts) < 4 THEN Panic(IndexPanic)
         ELSE LET immediate == ParseU32(parts[4])
                  t_register == get_by_left(registers, parts[2])
                  s_register == get_by_left(registers, parts[3])
              IN IF ~immediate.ok THEN Panic("Invalid immediate value for instruction")
                 ELSE IF t_register = None \/ s_register = None THEN Panic(UnwrapPanic)
                 ELSE Ok(pack_i(opcode, t_register, s_register,
                                mask_immediate(immediate.val)))

\* func_code == SLL_OPCODE || func_code == SRL_OPCODE || func_code == SRA_OPCODE
shift_opcode(func_code) ==
    func_code = SLL_OPCODE \/ func_code = SRL_OPCODE \/ func_code = SRA_OPCODE

\* the packing with the d and t registers in each other's field
pack_r_swapped(func_code, shift_amount, d_register, t_register, s_register) ==
    BitOr(BitOr(BitOr(BitOr(FromNat(func_code), Shl(shift_amount, 6)),
                      Shl(FromNat(d_register), 16)),
                Shl(FromNat(t_register), 11)),
          Shl(FromNat(s_register), 21))

\* func_code | (shift_amount << 6) | (d_register << 11) | (t_register << 16)
\*           | (s_register << 21)
pack_r(func_code, shift_amount, d_register, t_register, s_register) ==
    BitOr(BitOr(BitOr(BitOr(FromNat(func_code), Shl(shift_amount, 6)),
                      Shl(FromNat(d_register), 11)),
                Shl(FromNat(t_register), 16)),
          Shl(FromNat(s_register), 21))

assemble_r(func_code, registers, parts) ==
    IF shift_opcode(func_code) /\ Len(parts) < 4 THEN Panic(IndexPanic)
    ELSE LET shift_amount == IF shift_opcode(func_code) THEN ParseU32(parts[4])
                             ELSE [ok |-> TRUE, val |-> Zero32]
         IN IF ~shift_amount.ok THEN Panic("Invalid shift amount")
            ELSE IF Len(parts) < 2 THEN Panic(IndexPanic)
            ELSE LET d_register == get_by_left(registers, parts[2])
                 IN IF d_register = None THEN Panic(UnwrapPanic)
                    ELSE IF Len(parts) < 3 THEN Panic(IndexPanic)
                    ELSE LET t_register == get_by_left(registers, parts[3])
                         IN IF t_register = None THEN Panic(UnwrapPanic)
                            ELSE IF shift_opcode(func_code)
                            THEN Ok(pack_r(func_code, shift_amount.val,
                                           d_register, t_register, 0))
                            ELSE IF Len(parts) < 4 THEN Panic(IndexPanic)
                            ELSE LET s_register == get_by_left(registers, parts[4])
                                 IN IF s_register = None THEN Panic(UnwrapPanic)
                                    ELSE Ok(pack_r(func_code, shift_amount.val,
                                                   d_register, t_register, s_register))

\* the opcode shifted one bit short, into the address field
assemble_j_short(opcode) == Shl(FromNat(opcode), 25)

assemble_j(opcode) == Shl(FromNat(opcode), 26)

\* assemble_line: the tokens of the line, then the dispatch on the mnemonic
assemble_line(j_codes, i_codes, r_codes, registers, asm_line) ==
    LET parts == Tokenize(asm_line)
    IN IF parts = <<>> THEN Panic(IndexPanic)
       ELSE LET instruction == to_ascii_lowercase(parts[1])
            IN IF get_by_left(i_codes, instruction) # None
               THEN assemble_i(get_by_left(i_codes, instruction), registers, parts)
               ELSE IF get_by_left(r_codes, instruction) # None
               THEN assemble_r(get_by_left(r_codes, instruction), registers, parts)
               ELSE IF get_by_left(j_codes, instruction) # None
               THEN Ok(assemble_j(get_by_left(j_codes, instruction)))
               ELSE [ok |-> TRUE, word |-> Zero32, err |-> "", failed |-> TRUE]

(***************************************************************************)
(* Decoders.                                                               *)
(***************************************************************************)
ToNat(w) == BitsValue(w, 31, 0)

disassemble_i(instruction, registers, instruction_name) ==
    LET t_register == get_by_right(registers, ToNat(BitAnd(Shr(instruction, 21), FromNat(31))))
        s_register == get_by_right(registers, ToNat(BitAnd(Shr(instruction, 16), FromNat(31))))
        immediate  == ToNat(BitAnd(instruction, FromNat(65535)))
    IN IF instruction_name = <<"l", "w">> \/ instruction_name = <<"s", "w">>
       THEN instruction_name \o <<" ">> \o t_register \o <<",", " ">> \o FormatNat(immediate)
                \o <<"(">> \o s_register \o <<")">> \o <<"\n">>
       ELSE instruction_name \o <<" ">> \o t_register \o <<",", " ">> \o s_register \o <<",", " ">>
                \o FormatNat(immediate) \o <<"\n">>

disassemble_r(instruction, registers, instruction_name) ==
    LET d_register == get_by_right(registers, ToNat(BitAnd(Shr(instruction, 11), FromNat(31))))
        t_register == get_by_right(registers, ToNat(BitAnd(Shr(instruction, 16), FromNat(31))))
        s_register == get_by_right(registers, ToNat(BitAnd(Shr(instruction, 21), FromNat(31))))
    IN instruction_name \o <<" ">> \o d_register \o <<",", " ">> \o s_register \o <<",", " ">> \o t_register

disassemble_j(instruction, instruction_name) ==
    instruction_name \o <<" ", "u", "n", "i", "m", "p", "l", "e", "m", "e", "n", "t", "e", "d">>

\* the body of main's loop over the instructions: classify by opcode, decode
disassemble(j_codes, i_codes, r_codes, registers, instruction) ==
    LET opcode == ToNat(Shr(instruction, 26))
        func   == ToNat(BitAnd(instruction, FromNat(63)))
    IN IF opcode = 0
       THEN IF ~has_right(r_codes, func) THEN [ok |-> FALSE, text |-> <<>>, err |-> UnwrapPanic]
            ELSE [ok |-> TRUE, err |-> "",
                  text |-> disassemble_r(instruction, registers, get_by_right(r_codes, func))]
       ELSE IF has_right(j_codes, opcode)
       THEN [ok |-> TRUE, err |-> "",
             text |-> disassemble_j(instruction, get_by_right(j_codes, opcode))]
       ELSE IF has_right(i_codes, opcode)
       THEN [ok |-> TRUE, err |-> "",
             text |-> disassemble_i(instruction, registers, get_by_right(i_codes, opcode))]
       ELSE [ok |-> FALSE, text |-> <<>>, err |-> "Invalid opcode"]

(***************************************************************************)
(* Source texts the assembler is run on.                                   *)
(***************************************************************************)
RECURSIVE JoinOperands(_)
JoinOperands(ops) ==
    IF ops = <<>> THEN <<>>
    ELSE IF Len(ops) = 1 THEN ops[1]
    ELSE ops[1] \o <<",", " ">> \o JoinOperands(Tail(ops))

\* the line "<mnemonic> <op>, <op>, ..."
Line(mnemonic, ops) ==
    IF ops = <<>> THEN mnemonic ELSE mnemonic \o <<" ">> \o JoinOperands(ops)

Names(m) == {p.l : p \in m}
SymbolicRegs == Names(create_register_codes)
NumericRegs == {<<"$">> \o FormatNat(n) : n \in 0..31}
RegSweep == SymbolicRegs \cup NumericRegs \cup {<<"$", "f", "o", "o">>, <<"$", "T", "0">>}
RegFewList == <<<<"$", "t", "1">>, <<"$", "s", "p">>, <<"$", "z", "e", "r", "o">>, <<"$", "r", "a">>>>
RegFew == {RegFewList[i] : i \in 1..NFew}
Literals ==
    { <<"0">>, <<"2">>, <<"4">>, <<"3", "1">>, <<"3", "2">>, <<"6", "5", "5", "3", "5">>, <<"6", "5", "5", "3", "6">>, <<"1", "3", "1", "0", "7", "1">>, <<"1", "0", "4", "8", "5", "7", "6">>,
      <<"4", "2", "9", "4", "9", "6", "7", "2", "9", "5">>, <<"4", "2", "9", "4", "9", "6", "7", "2", "9", "6">>, <<"+", "4">>, <<"0", "0", "7">>, <<"0", "x", "4", "0", "0", "0", "0", "0">>, <<"-", "1">>, <<"$", "t", "2">> }

ShiftNames == {p.l : p \in {q \in create_r_codes : shift_opcode(q.r)}}
NonShiftNames == {p.l : p \in {q \in create_r_codes : ~shift_opcode(q.r)}}
MemoryNames == {p.l : p \in {q \in create_i_codes : q.r \in {LW_OPCODE, SW_OPCODE}}}
ArithNames == {p.l : p \in {q \in create_i_codes : q.r \notin {LW_OPCODE, SW_OPCODE}}}

MemOperand(lit, reg) == lit \o <<"(">> \o reg \o <<")">>

CodecLines ==
    {Line(m, <<a, b, c>>) : m \in NonShiftNames, a \in RegSweep, b \in RegFew, c \in RegFew}
    \cup {Line(m, <<a, b, a>>) : m \in NonShiftNames, a \in RegFew, b \in RegSweep}
    \cup {Line(m, <<a, a, c>>) : m \in NonShiftNames, a \in RegFew, c \in RegSweep}
    \cup {Line(m, <<a, b, v>>) : m \in ShiftNames, a \in RegSweep, b \in RegFew, v \in {<<"2">>}}
    \cup {Line(m, <<a, b, v>>) : m \in ShiftNames, a \in RegFew, b \in RegSweep, v \in {<<"3", "1">>}}
    \cup {Line(m, <<a, b, v>>) : m \in ShiftNames, a \in RegFew, b \in RegFew, v \in Literals}
    \cup {Line(m, <<a, b, v>>) : m \in ArithNames, a \in RegSweep, b \in RegFew, v \in {<<"4">>}}
    \cup {Line(m, <<a, b, v>>) : m \in ArithNames, a \in RegFew, b \in RegSweep, v \in {<<"6", "5", "5", "3", "5">>}}
    \cup {Line(m, <<a, b, v>>) : m \in ArithNames, a \in RegFew, b \in RegFew, v \in Literals}
    \cup {Line(m, <<a, MemOperand(v, b)>>) : m \in MemoryNames, a \in RegSweep, b \in RegFew, v \in {<<"4">>}}
    \cup {Line(m, <<a, MemOperand(v, b)>>) : m \in MemoryNames, a \in RegFew, b \in RegSweep, v \in {<<"8">>}}
    \cup {Line(m, <<a, MemOperand(v, b)>>) : m \in MemoryNames, a \in RegFew, b \in RegFew, v \in Literals}
    \cup {Line(m, ops) : m \in Names(create_j_codes) \cup {<<"J">>},
                         ops \in {<<>>, <<<<"0", "x", "4", "0", "0", "0", "0", "0">>>>, <<<<"l", "o", "o", "p">>>>, <<<<"$", "t", "0">>, <<"$", "t", "1">>>>}}
    \cup { <<"f", "o", "o", " ", "$", "t", "0", ",", " ", "$", "t", "1", ",", " ", "$", "t", "2">>, <<>>, <<"#", " ", "o", "n", "l", "y", " ", "a", " ", "c", "o", "m", "m", "e", "n", "t">>, <<" ", " ", " ">>, <<" ", "\t">>,
           <<"A", "D", "D", " ", "$", "t", "0", ",", " ", "$", "t", "1", ",", " ", "$", "t", "2">>, <<" ", " ", "a", "d", "d", " ", "$", "t", "0", ",", "$", "t", "1", " ", ",", ",", " ", "$", "t", "2", " ", " ", " ", "#", " ", "s", "u", "m">>, <<"j", "r", " ", "$", "r", "a">>,
           <<"l", "w", " ", "$", "t", "0", ",", " ", "4", " ", "(", "$", "s", "p", ")">>, <<"l", "w", " ", "$", "t", "0", ",", " ", "(", "$", "s", "p", ")">>, <<"l", "w", " ", "$", "t", "0">>, <<"a", "d", "d", "\t", "$", "t", "0", ",", " ", "$", "t", "1", ",", " ", "$", "t", "2">>,
           <<"a", "d", "d", "i", " ", "$", "t", "0", ",", " ", "$", "t", "1">>, <<"s", "l", "l", " ", "$", "t", "0", ",", " ", "$", "t", "1">> }

FileLines ==
    { <<"a", "d", "d", " ", "$", "t", "0", ",", " ", "$", "t", "1", ",", " ", "$", "t", "2">>, <<"s", "l", "l", " ", "$", "t", "0", ",", " ", "$", "t", "1", ",", " ", "2">>, <<"l", "w", " ", "$", "t", "0", ",", " ", "4", "(", "$", "s", "p", ")">>,
      <<"a", "d", "d", "i", " ", "$", "t", "0", ",", " ", "$", "t", "1", ",", " ", "1", "3", "1", "0", "7", "1">>, <<"s", "w", " ", "$", "r", "a", ",", " ", "1", "3", "1", "0", "7", "1", "(", "$", "s", "p", ")">>, <<"j", " ", "0", "x", "4", "0", "0", "0", "0", "0">>, <<"j", "a", "l">>,
      <<"f", "o", "o", " ", "$", "t", "0", ",", " ", "$", "t", "1", ",", " ", "$", "t", "2">>, <<>>, <<"#", " ", "o", "n", "l", "y", " ", "a", " ", "c", "o", "m", "m", "e", "n", "t">>, <<"a", "d", "d", " ", "$", "t", "0", ",", " ", "$", "t", "1", ",", " ", "$", "2", "6">>,
      <<"a", "d", "d", "i", " ", "$", "t", "0", ",", " ", "$", "t", "1", ",", " ", "x">>, <<"s", "l", "l", " ", "$", "t", "0", ",", " ", "$", "t", "1", ",", " ", "1", "0", "4", "8", "5", "7", "6">> }

RECURSIVE SeqsOfLen(_, _)
SeqsOfLen(S, n) ==
    IF n = 0 THEN {<<>>}
    ELSE {Append(s, x) : s \in SeqsOfLen(S, n - 1), x \in S}

Files ==
    {<<l>> : l \in CodecLines} \cup UNION {SeqsOfLen(FileLines, n) : n \in 0..MaxLines}

(***************************************************************************)
(* The program: a run in mode Assemble over the source file, then a run    *)
(* in mode Mhc over the words the first run wrote.                         *)
(***************************************************************************)
VARIABLES
    file,          \* the lines of the source file (result.lines())
    mode,          \* AssemblerMode of the current run
    pc,            \* "loop", "exit" or "panicked"
    idx,           \* the line, or the instruction, the loop is at
    mhc_file,      \* the bytes written to the .mhc file
    binary_file,   \* the characters written to the .bin file
    stdout,        \* what println! wrote
    instructions,  \* the Vec<u32> of the disassembling run
    emitted,       \* history: for each word written, the line it was written for
    err            \* the panic message, once panicked

vars == <<file, mode, pc, idx, mhc_file, binary_file, stdout, instructions, emitted, err>>

Init ==
    /\ file \in Files
    /\ mode = "Assemble"
    /\ pc = "loop"
    /\ idx = 1
    /\ mhc_file = <<>>
    /\ binary_file = <<>>
    /\ stdout = <<>>
    /\ instructions = <<>>
    /\ emitted = <<>>
    /\ err = ""

Assembled(asm_line) ==
    assemble_line(create_j_codes, create_i_codes, create_r_codes,
                  create_register_codes, asm_line)

\* one iteration of assemble_file's loop that returns from assemble_line
AssembleLine ==
    /\ mode = "Assemble" /\ pc = "loop" /\ idx <= Len(file)
    /\ LET res == Assembled(file[idx])
           parts == Tokenize(file[idx])
       IN /\ res.ok
          /\ stdout' = stdout
                \o <<[kind |-> "parts", text |-> parts]>>
                \o (IF res.failed THEN <<[kind |-> "Failed to parse line", text |-> parts]>>
                    ELSE <<>>)
                \o <<[kind |-> "word", text |-> FormatBinary(res.word)]>>
          /\ mhc_file' = mhc_file \o to_le_bytes(res.word)
          /\ binary_file' = binary_file \o FormatBinary(res.word)
          /\ emitted' = Append(emitted, idx)
    /\ idx' = idx + 1
    /\ UNCHANGED <<file, mode, pc, instructions, err>>

\* one iteration of assemble_file's loop in which assemble_line panics
AssemblePanic ==
    /\ mode = "Assemble" /\ pc = "loop" /\ idx <= Len(file)
    /\ LET res == Assembled(file[idx])
           parts == Tokenize(file[idx])
       IN /\ ~res.ok
          /\ stdout' = IF parts = <<>> THEN stdout
                       ELSE Append(stdout, [kind |-> "parts", text |-> parts])
          /\ err' = res.err
    /\ pc' = "panicked"
    /\ UNCHANGED <<file, mode, idx, mhc_file, binary_file, instructions, emitted>>

\* the loop of assemble_file ends: the writers are flushed, the run exits
AssembleExit ==
    /\ mode = "Assemble" /\ pc = "loop" /\ idx > Len(file)
    /\ pc' = "exit"
    /\ UNCHANGED <<file, mode, idx, mhc_file, binary_file, stdout, instructions, emitted, err>>

\* a disassembling run over the words of the .mhc file: bytes.chunks(4) and
\* u32::from_le_bytes.  How main opens and reads the input file (it opens it
\* with File::create) is file I/O and is left out: the run is given the bytes
\* the assembling run wrote.
DisassembleStart ==
    /\ mode = "Assemble" /\ pc = "exit"
    /\ mode' = "Mhc"
    /\ pc' = "loop"
    /\ idx' = 1
    /\ instructions' = [k \in 1..(Len(mhc_file) \div 4) |->
                            from_le_bytes(SubSeq(mhc_file, 4 * k - 3, 4 * k))]
    /\ UNCHANGED <<file, mhc_file, binary_file, stdout, emitted, err>>

Disassembled(instruction) ==
    disassemble(create_j_codes, create_i_codes, create_r_codes,
                create_register_codes, instruction)

DisassembleInstruction ==
    /\ mode = "Mhc" /\ pc = "loop" /\ idx <= Len(instructions)
    /\ LET res == Disassembled(instructions[idx])
       IN /\ res.ok
          /\ stdout' = Append(stdout, [kind |-> "asm", text |-> res.text])
    /\ idx' = idx + 1
    /\ UNCHANGED <<file, mode, pc, mhc_file, binary_file, instructions, emitted, err>>

DisassemblePanic ==
    /\ mode = "Mhc" /\ pc = "loop" /\ idx <= Len(instructions)
    /\ LET res == Disassembled(instructions[idx])
       IN /\ ~res.ok
          /\ err' = res.err
    /\ pc' = "panicked"
    /\ UNCHANGED <<file, mode, idx, mhc_file, binary_file, stdout, instructions, emitted>>

DisassembleExit ==
    /\ mode = "Mhc" /\ pc = "loop" /\ idx > Len(instructions)
    /\ pc' = "exit"
    /\ UNCHANGED <<file, mode, idx, mhc_file, binary_file, stdout, instructions, emitted, err>>

Next ==
    \/ AssembleLine
    \/ AssemblePanic
    \/ AssembleExit
    \/ DisassembleStart
    \/ DisassembleInstruction
    \/ DisassemblePanic
    \/ DisassembleExit

Spec == Init /\ [][Next]_vars

(***************************************************************************)
(* Vocabulary of the properties.                                           *)
(***************************************************************************)
\* the tokens of line i of the source file
Parts(i) == Tokenize(file[i])
Mnemonic(p) == to_ascii_lowercase(p[1])
\* the k-th word of the .mhc file; it was written for line emitted[k]
WordAt(k) == from_le_bytes(SubSeq(mhc_file, 4 * k - 3, 4 * k))
\* the lines assemble_file has dealt with so far
Handled == {i \in 1..Len(file) : mode = "Mhc" \/ i < idx \/ (i = idx /\ pc = "panicked")}
\* the decoded text of the k-th instruction, once it has been written
AsmOut == SelectSeq(stdout, LAMBDA e : e.kind = "asm")
Reg(tok) == get_by_left(create_register_codes, tok)
IsReg(tok) == tok \in SymbolicRegs
\* the value of a literal below 2^31
LitOk(tok) == ParseU32(tok).ok
LitLow16(tok) == BitsValue(ParseU32(tok).val, 15, 0)
LitHigh16(tok) == BitsValue(ParseU32(tok).val, 31, 16)
LitBelow(tok, n) == LitOk(tok) /\ LitHigh16(tok) = 0 /\ LitLow16(tok) < n

IsRLine(p) == p # <<>> /\ Mnemonic(p) \in Names(create_r_codes)
IsShiftLine(p) == IsRLine(p) /\ Mnemonic(p) \in ShiftNames
IsNonShiftLine(p) == IsRLine(p) /\ Mnemonic(p) \in NonShiftNames
IsILine(p) == p # <<>> /\ Mnemonic(p) \in Names(create_i_codes)
IsMemLine(p) == IsILine(p) /\ Mnemonic(p) \in MemoryNames
IsArithLine(p) == IsILine(p) /\ Mnemonic(p) \in ArithNames
IsJLine(p) == p # <<>> /\ Mnemonic(p) \in Names(create_j_codes)
FuncOf(p) == get_by_left(create_r_codes, Mnemonic(p))
OpcodeOf(p) == get_by_left(create_i_codes, Mnemonic(p))
JOpcodeOf(p) == get_by_left(create_j_codes, Mnemonic(p))
\* the offset and the base register of a memory operand "offset(base)"
MemParts(p) == SplitNonEmpty(p[3], {"(", ")"})

\* C7: every word written for a non-shift R-type line [mnemonic, rd, rt, rs]
\* is func + rd*2^11 + rt*2^16 + rs*2^21, with bits [10:6] zero; every word
\* written for a shift line [mnemonic, rd, rt, shamt] has its third operand
\* parsed as a literal, and when the literal is in 0..31 the word is
\* func + shamt*2^6 + rd*2^11 + rt*2^16, with bits [25:21] zero.
RTypeLayout ==
    \A k \in 1..Len(emitted) :
        LET p == Parts(emitted[k])
            w == WordAt(k)
        IN /\ IsNonShiftLine(p) =>
                /\ w = FromNat(FuncOf(p) + Reg(p[2]) * 2048 + Reg(p[3]) * 65536
                               + Reg(p[4]) * 2097152)
                /\ Field(w, 10, 6) = 0
                /\ Field(w, 25, 21) = Reg(p[4])
                /\ Field(w, 20, 16) = Reg(p[3])
                /\ Field(w, 15, 11) = Reg(p[2])
           /\ IsShiftLine(p) =>
                /\ LitOk(p[4])
                /\ ~IsReg(p[4])
                /\ LitBelow(p[4], 32) =>
                     /\ w = FromNat(FuncOf(p) + LitLow16(p[4]) * 64
                                    + Reg(p[2]) * 2048 + Reg(p[3]) * 65536)
                     /\ Field(w, 25, 21) = 0
                     /\ Field(w, 10, 6) = LitLow16(p[4])

\* a non-shift line with three different registers and a shift line with a
\* shift amount in 1..31 have both been assembled
RTypeLayoutWitness ==
    /\ \E k \in 1..Len(emitted) :
          LET p == Parts(emitted[k])
          IN IsNonShiftLine(p) /\ Cardinality({Reg(p[2]), Reg(p[3]), Reg(p[4])}) = 3
    /\ \E k \in 1..Len(emitted) :
          LET p == Parts(emitted[k])
          IN IsShiftLine(p) /\ LitBelow(p[4], 32) /\ LitLow16(p[4]) > 0

\* the I-type line p with its immediate replaced by the literal lit
WithImmediate(p, lit) ==
    IF IsMemLine(p) THEN Line(p[1], <<p[2], MemOperand(lit, MemParts(p)[2])>>)
    ELSE Line(p[1], <<p[2], p[3], lit>>)
ImmediateOf(p) == IF IsMemLine(p) THEN MemParts(p)[1] ELSE p[4]

\* C8: the word written for an I-type line with immediate v is the word the
\* encoder gives for the same line with immediate v mod 2^16, and its bits
\* [31:16] are those of the same line with immediate 0.
ImmediateMasking ==
    \A k \in 1..Len(emitted) :
        LET p == Parts(emitted[k])
            w == WordAt(k)
        IN IsILine(p) =>
             /\ w = Assembled(WithImmediate(p, FormatNat(LitLow16(ImmediateOf(p))))).word
             /\ Field(w, 15, 0) = LitLow16(ImmediateOf(p))
             /\ Field(w, 31, 16) = Field(Assembled(WithImmediate(p, <<"0">>)).word, 31, 16)

\* a memory-form line and an arithmetic-form line whose immediates need more
\* than 16 bits have both been assembled
ImmediateMaskingWitness ==
    /\ \E k \in 1..Len(emitted) :
          LET p == Parts(emitted[k])
          IN IsMemLine(p) /\ LitHigh16(ImmediateOf(p)) > 0 /\ LitLow16(ImmediateOf(p)) > 0
    /\ \E k \in 1..Len(emitted) :
          LET p == Parts(emitted[k])
          IN IsArithLine(p) /\ LitHigh16(ImmediateOf(p)) > 0 /\ LitLow16(ImmediateOf(p)) > 0

\* C9: the word written for a jump line, whatever its operands, has the
\* opcode in bits [31:26] and zero in bits [25:0]; decoded, it reads
\* "<mnemonic> unimplemented".
JumpIgnoresTarget ==
    \A k \in 1..Len(emitted) :
        LET p == Parts(emitted[k])
            w == WordAt(k)
        IN IsJLine(p) =>
             /\ Field(w, 31, 26) = JOpcodeOf(p)
             /\ Field(w, 25, 0) = 0
             /\ k <= Len(AsmOut) =>
                    /\ AsmOut[k].text = Mnemonic(p) \o <<" ", "u", "n", "i", "m", "p", "l", "e", "m", "e", "n", "t", "e", "d">>
                    /\ \A n \in 1..Len(AsmOut[k].text) : AsmOut[k].text[n] \notin Range(Digits)

\* a jump line with an operand and a jump line with none have been assembled
\* and decoded
JumpIgnoresTargetWitness ==
    /\ \E k \in 1..Len(emitted) :
          LET p == Parts(emitted[k])
          IN IsJLine(p) /\ k <= Len(AsmOut) /\ Len(p) = 2 /\ p[2] = <<"0", "x", "4", "0", "0", "0", "0", "0">>
    /\ \E k \in 1..Len(emitted) :
          LET p == Parts(emitted[k])
          IN IsJLine(p) /\ k <= Len(AsmOut) /\ Len(p) = 1

(***************************************************************************)
(* Properties the code does not have.                                      *)
(***************************************************************************)
\* the canonical spelling of a register operand, and of a literal
CanonReg(tok) == get_by_right(create_register_codes, Reg(tok))
CanonLit(tok) == FormatNat(LitLow16(tok))

\* a line of one of the five forms whose mnemonic and operands are all valid
ValidOperands(p) ==
    \/ IsNonShiftLine(p) /\ Len(p) = 4 /\ IsReg(p[2]) /\ IsReg(p[3]) /\ IsReg(p[4])
    \/ IsShiftLine(p) /\ Len(p) = 4 /\ IsReg(p[2]) /\ IsReg(p[3]) /\ LitBelow(p[4], 32)
    \/ IsArithLine(p) /\ Len(p) = 4 /\ IsReg(p[2]) /\ IsReg(p[3]) /\ LitBelow(p[4], 65536)
    \/ IsMemLine(p) /\ Len(p) = 3 /\ IsReg(p[2]) /\ Len(MemParts(p)) = 2
           /\ LitBelow(MemParts(p)[1], 65536) /\ IsReg(MemParts(p)[2])
    \/ IsJLine(p) /\ Len(p) = 2

\* the same mnemonic and the same operands in source order, canonically spelled
CanonicalRendering(p) ==
    IF IsNonShiftLine(p)
    THEN Line(Mnemonic(p), <<CanonReg(p[2]), CanonReg(p[3]), CanonReg(p[4])>>)
    ELSE IF IsShiftLine(p)
    THEN Line(Mnemonic(p), <<CanonReg(p[2]), CanonReg(p[3]), CanonLit(p[4])>>)
    ELSE IF IsArithLine(p)
    THEN Line(Mnemonic(p), <<CanonReg(p[2]), CanonReg(p[3]), CanonLit(p[4])>>)
    ELSE IF IsMemLine(p)
    THEN Line(Mnemonic(p), <<CanonReg(p[2]),
                             MemOperand(CanonLit(MemParts(p)[1]), CanonReg(MemParts(p)[2]))>>)
    ELSE Line(Mnemonic(p), <<p[2]>>)

\* the decoded text without the line ends the decoder appends
RECURSIVE StripLineEnd(_)
StripLineEnd(s) ==
    IF s # <<>> /\ s[Len(s)] = "\n" THEN StripLineEnd(SubSeq(s, 1, Len(s) - 1)) ELSE s

\* C1: the decoded text of the word written for a valid line is the
\* canonical rendering of that line.
RoundTrip ==
    \A k \in 1..Len(AsmOut) :
        LET p == Parts(emitted[k])
        IN ValidOperands(p) => StripLineEnd(AsmOut[k].text) = CanonicalRendering(p)

\* a register operand in its symbolic spelling
SymbolicOf(tok) ==
    IF tok \in NumericRegs
    THEN CHOOSE r \in SymbolicRegs : <<"$">> \o FormatNat(Reg(r)) = tok
    ELSE LET m == SplitNonEmpty(tok, {"(", ")"})
         IN IF Len(m) = 2 /\ m[2] \in NumericRegs
            THEN MemOperand(m[1], CHOOSE r \in SymbolicRegs : <<"$">> \o FormatNat(Reg(r)) = m[2])
            ELSE tok
SymbolicLine(p) == Line(p[1], [n \in 1..(Len(p) - 1) |-> SymbolicOf(p[n + 1])])

\* C2: a line that assembles with symbolic register names assembles to the
\* same word when registers are spelled `$n`.
RegisterAliasing ==
    \A i \in Handled :
        LET p == Parts(i)
        IN (p # <<>> /\ Assembled(SymbolicLine(p)).ok /\ ~Assembled(SymbolicLine(p)).failed) =>
              \E k \in 1..Len(emitted) :
                  emitted[k] = i /\ WordAt(k) = Assembled(SymbolicLine(p)).word

UnknownMnemonic(p) ==
    p # <<>> /\ ~IsILine(p) /\ ~IsRLine(p) /\ ~IsJLine(p)

\* C3: no word is written for a line whose mnemonic is in none of the tables.
UnknownMnemonicNoWord ==
    \A i \in Handled :
        UnknownMnemonic(Parts(i)) => \A k \in 1..Len(emitted) : emitted[k] # i

\* C4: a line with no tokens neither ends the run nor has a word written.
BlankLineSkipped ==
    \A i \in Handled :
        Parts(i) = <<>> =>
            /\ ~(mode = "Assemble" /\ pc = "panicked" /\ idx = i)
            /\ \A k \in 1..Len(emitted) : emitted[k] # i

\* a line encodes when its mnemonic is known and assemble_line returns
Encodes(l) == Assembled(l).ok /\ ~Assembled(l).failed
WordsOf(lines) == [n \in 1..Len(lines) |-> Assembled(lines[n]).word]
\* the words written for the lines that encode, in the order written
EmittedForEncoding ==
    LET ks == SelectSeq([k \in 1..Len(emitted) |-> k], LAMBDA k : Encodes(file[emitted[k]]))
    IN [n \in 1..Len(ks) |-> WordAt(ks[n])]
\* every line of the file either encodes or is an instruction line that fails
NoBlankLine == \A i \in 1..Len(file) : Parts(i) # <<>>

\* C5: once the assembling run has ended on a file of instruction lines, the
\* words written for the lines that encode are the words of the file
\* without the failing lines, in the same order.
FailureIsolation ==
    (NoBlankLine /\ (mode = "Mhc" \/ pc # "loop")) =>
        EmittedForEncoding = WordsOf(SelectSeq(file, Encodes))

\* C6: the word written for an I-type line has the opcode in [31:26], the
\* s register (the base register of the memory form) in [25:21], the t
\* register (the first operand) in [20:16] and the immediate in [15:0].
ITypeLayout ==
    \A k \in 1..Len(emitted) :
        LET p == Parts(emitted[k])
            w == WordAt(k)
            rs == IF IsMemLine(p) THEN MemParts(p)[2] ELSE p[3]
        IN IsILine(p) =>
             /\ Field(w, 31, 26) = OpcodeOf(p)
             /\ Field(w, 25, 21) = Reg(rs)
             /\ Field(w, 20, 16) = Reg(p[2])
             /\ Field(w, 15, 0) = LitLow16(ImmediateOf(p))

\* C10: every word written for an R-type line has zero in [31:26] and the
\* function code in [5:0], and the shift amount stays out of rd, rt and rs.
RTypeOpcodeZero ==
    \A k \in 1..Len(emitted) :
        LET p == Parts(emitted[k])
            w == WordAt(k)
        IN IsRLine(p) =>
             /\ Field(w, 31, 26) = 0
             /\ Field(w, 5, 0) = FuncOf(p)
             /\ Field(w, 15, 11) = Reg(p[2])
             /\ Field(w, 20, 16) = Reg(p[3])
             /\ Field(w, 25, 21) = (IF IsShiftLine(p) THEN 0 ELSE Reg(p[4]))

====
